---- MODULE Spec2Model ----
(***************************************************************************)
(* Connection lifecycle of VectorLogger (src/logger.go, lines 1-354):      *)
(* New, the manageConnection goroutine, send and Close, together with the  *)
(* collector side of the TCP connections the logger dials.                 *)
(*                                                                         *)
(* Time is counted in units of 30 s, so the idle timeout of one minute     *)
(* (logger.go:71) is 2 units.  The ticker (10 s, logger.go:98) fires       *)
(* several times per unit: a tick can arrive in its channel (capacity 1)   *)
(* at any moment while the monitor runs.                                   *)
(***************************************************************************)
EXTENDS Integers, Sequences, FiniteSets, TLC

\* ---- bounds of the model ----
MaxTime == 3
MaxConns == 3

\* ---- program constants ----
TimeoutDuration == 2

\* the invocations of an emit method or of Close made by the application's goroutines
Calls == {"a", "b", "c"}
Hosts == {"", "h"}
ConnIds == 1..MaxConns

VARIABLES
    logger,            \* "none" before New, "ok" once New returned a logger, "err" when New failed
    Level,             \* l.Level ("" before New)
    exited,            \* os.Exit has ended the process
    Writer,            \* l.Options.Writer != nil
    optsWriter,        \* history: the options given to New carried a Writer
    tooManyOptions,    \* history: New was given more than one Options value
    VectorHost,        \* l.VectorHost
    conn,              \* l.conn: 0 is nil, otherwise the id of the dialed connection
    lastActivityTime,  \* l.lastActivityTime
    mu,                \* l.mu: "free", "mon" or the invocation holding it
    stopChan,          \* the field l.stopChan: "nil" or "chan"
    chanClosed,        \* whether the channel made by New has been closed
    wg,                \* l.wg counter
    monPc,             \* manageConnection: "none","loop","select","lock","body","done"
    monStop,           \* the value of l.stopChan the current select waits on
    tickReady,         \* a tick is buffered in ticker.C
    pc,                \* position of each invocation: "idle" before it is made, "done" once it returned
    call,              \* per invocation: what it is and what it did so far ("late": it was
                       \* made after a Close had returned; "racing": it was made while the
                       \* handle was absent or idle and has not yet checked the connection; "sev", "level": the severity of
                       \* the method called and the level it gave to sendMessage)
    now,               \* the clock
    opened,            \* number of connections dialed so far (as seen by the collector)
    closes,            \* per connection: how often the logger called Close on it
    severed,           \* connections severed by the collector / network that the logger still holds open
    rcvd,              \* per connection: records received by the collector, in order
    sink,              \* records received by the redirect sink (Options.Writer)
    closeErr,          \* the error returned by the l.conn.Close() of the latest Close ("none": not yet)
    closesDone,        \* number of Close calls that returned
    quietSince,        \* history: the time of the latest arrival (New, or a send's connection
                       \* check) as long as every arrival so far came less than the idle timeout
                       \* after the one before, no write failed and Close was not called;
                       \* -1 afterwards
    evicted,           \* history: the handle is absent because the monitor evicted the
                       \* connection, and no send has checked the connection since
    burst              \* history: successful dials (New's included) since the latest
                       \* disturbance: the clock advancing, a failed write or dial, a
                       \* connection severed, an eviction by the monitor, a Close returning

cfgVars == <<logger, Level, Writer, VectorHost, optsWriter, tooManyOptions, exited>>
connVars == <<conn, lastActivityTime>>
chanVars == <<stopChan, chanClosed>>
monVars == <<monPc, monStop, tickReady, wg>>
netVars == <<opened, closes, severed, rcvd, sink, closeErr>>
thrVars == <<pc, call, closesDone>>
histVars == <<quietSince, evicted, burst>>
vars == <<cfgVars, connVars, chanVars, monVars, netVars, thrVars, mu, now, histVars>>

NoCall ==
    [op |-> "none", dials |-> 0, writes |-> 0, found |-> "na",
     fresh |-> 0, old |-> 0, buf |-> "none", sev1 |-> FALSE, envFail |-> FALSE,
     late |-> FALSE, racing |-> FALSE, sev |-> "na", level |-> "na", result |-> "na", ret |-> "nil"]

Init ==
    /\ logger = "none"
    /\ Level = ""
    /\ exited = FALSE
    /\ Writer = FALSE
    /\ optsWriter = FALSE
    /\ tooManyOptions = FALSE
    /\ VectorHost = ""
    /\ conn = 0
    /\ lastActivityTime = 0
    /\ mu = "free"
    /\ stopChan = "nil"
    /\ chanClosed = FALSE
    /\ wg = 0
    /\ monPc = "none"
    /\ monStop = "nil"
    /\ tickReady = FALSE
    /\ pc = [t \in Calls |-> "idle"]
    /\ call = [t \in Calls |-> NoCall]
    /\ now = 0
    /\ opened = 0
    /\ closes = [c \in ConnIds |-> 0]
    /\ severed = {}
    /\ rcvd = [c \in ConnIds |-> <<>>]
    /\ sink = <<>>
    /\ closeErr = "none"
    /\ closesDone = 0
    /\ quietSince = 0
    /\ evicted = FALSE
    /\ burst = 0

\* ---- levels (logger.go:15-21, 66) ----

\* strings.ToUpper on the level names given to New
ToUpper(s) ==
    CASE s = "debug" -> "DEBUG"
      [] s = "info" -> "INFO"
      [] s = "warn" -> "WARN"
      [] s = "error" -> "ERROR"
      [] s = "fatal" -> "FATAL"
      [] OTHER -> s

\* the level arguments given to New
LevelInputs == {"DEBUG", "INFO", "WARN", "ERROR", "FATAL", "info", "warn"}

\* the emit methods of VectorLogger
Methods ==
    {"Debugf", "Debug", "Infof", "Info", "Warnf", "Warn", "Errorf", "Error",
     "Fatalf", "Fatal", "FatalError"}

\* the severity a method logs at
Severity(m) ==
    CASE m \in {"Debugf", "Debug"} -> "DEBUG"
      [] m \in {"Infof", "Info"} -> "INFO"
      [] m \in {"Warnf", "Warn"} -> "WARN"
      [] m \in {"Errorf", "Error"} -> "ERROR"
      [] m \in {"Fatalf", "Fatal", "FatalError"} -> "FATAL"

\* the total order DEBUG < INFO < WARN < ERROR < FATAL
Rank(sev) ==
    CASE sev = "DEBUG" -> 0
      [] sev = "INFO" -> 1
      [] sev = "WARN" -> 2
      [] sev = "ERROR" -> 3
      [] sev = "FATAL" -> 4

\* the level a method hands to sendMessage, which puts it into Message.Level
MessageLevel(m) == Severity(m)

\* a level test that lets Debug through at every level
PassesDebugAlways(m, lvl) ==
    CASE m \in {"Debugf", "Debug"} -> TRUE
      [] m \in {"Infof", "Info"} -> ~(lvl = "ERROR" \/ lvl = "WARN")
      [] m \in {"Warnf", "Warn"} -> ~(lvl = "ERROR")
      [] OTHER -> TRUE

\* the level test at the head of each method: the early returns of logger.go:138-212
Passes(m, lvl) ==
    CASE m \in {"Debugf", "Debug"} -> ~(lvl # "DEBUG")
      [] m \in {"Infof", "Info"} -> ~(lvl = "ERROR" \/ lvl = "WARN")
      [] m \in {"Warnf", "Warn"} -> ~(lvl = "ERROR")
      [] OTHER -> TRUE

\* ---- the transport ----

\* net.Dial either fails or yields a new connection; the collector accepts
\* at most MaxConns connections in a run.
DialOutcomes == IF opened < MaxConns THEN BOOLEAN ELSE {FALSE}

\* A write on a severed connection fails; on a healthy one it may still fail.
WriteOutcomes(c) == IF c \in severed THEN {FALSE} ELSE BOOLEAN

\* net.Conn.Close as called by the logger
ConnClose(cl, c) == [cl EXCEPT ![c] = @ + 1]

\* a connection the logger closed is no longer one the network can sever
StillSevered == {c \in severed : closes'[c] = 0}

\* connections dialed by the logger and not yet closed by it
OpenConns == {c \in 1..opened : closes[c] = 0}

\* the network test of send when it overlooks the redirect sink
NetworkModeIgnoresWriter == VectorHost # ""

\* the network test of send: dest == nil && l.VectorHost != "" (logger.go:224-226)
NetworkMode == ~Writer /\ VectorHost # ""

\* ---- New (logger.go:53-91) ----

\* New using the first Options value when it is given several
NewTakesFirstOption(level, nopts, w, host, ok) ==
    /\ logger = "none"
    /\ LET wr == (nopts >= 1 /\ w) IN
       IF ~wr /\ host # ""
       THEN IF ~ok
            THEN /\ logger' = "err"
                 /\ UNCHANGED <<Level, Writer, optsWriter, VectorHost, connVars, chanVars, monVars, opened>>
            ELSE /\ logger' = "ok"
                 /\ Level' = ToUpper(level)
                 /\ Writer' = FALSE
                 /\ optsWriter' = FALSE
                 /\ VectorHost' = host
                 /\ opened' = opened + 1
                 /\ conn' = opened + 1
                 /\ lastActivityTime' = now
                 /\ stopChan' = "chan"
                 /\ chanClosed' = FALSE
                 /\ wg' = 1
                 /\ monPc' = "loop"
                 /\ UNCHANGED <<monStop, tickReady>>
       ELSE /\ logger' = "ok"
            /\ Level' = ToUpper(level)
            /\ Writer' = wr
            /\ optsWriter' = wr
            /\ VectorHost' = host
            /\ stopChan' = "chan"
            /\ chanClosed' = FALSE
            /\ UNCHANGED <<connVars, monVars, opened>>
    /\ tooManyOptions' = (nopts > 1)
    /\ quietSince' = now
    /\ evicted' = FALSE
    /\ burst' = IF conn' # 0 THEN 1 ELSE 0
    /\ UNCHANGED <<closes, severed, rcvd, sink, closeErr, thrVars, mu, now, exited>>

\* New returning a logger without a connection when the eager dial failed
NewIgnoresDialError(level, nopts, w, host, ok) ==
    /\ logger = "none"
    /\ LET wr == (nopts = 1 /\ w) IN
       IF nopts > 1
       THEN /\ logger' = "err"
            /\ UNCHANGED <<Level, Writer, optsWriter, VectorHost, connVars, chanVars, monVars, opened>>
       ELSE IF ~wr /\ host # "" /\ ok
       THEN /\ logger' = "ok"
            /\ Level' = ToUpper(level)
            /\ Writer' = FALSE
            /\ optsWriter' = FALSE
            /\ VectorHost' = host
            /\ opened' = opened + 1
            /\ conn' = opened + 1
            /\ lastActivityTime' = now
            /\ stopChan' = "chan"
            /\ chanClosed' = FALSE
            /\ wg' = 1
            /\ monPc' = "loop"
            /\ UNCHANGED <<monStop, tickReady>>
       ELSE /\ logger' = "ok"
            /\ Level' = ToUpper(level)
            /\ Writer' = wr
            /\ optsWriter' = wr
            /\ VectorHost' = host
            /\ stopChan' = "chan"
            /\ chanClosed' = FALSE
            /\ UNCHANGED <<connVars, monVars, opened>>
    /\ tooManyOptions' = (nopts > 1)
    /\ quietSince' = now
    /\ evicted' = FALSE
    /\ burst' = IF conn' # 0 THEN 1 ELSE 0
    /\ UNCHANGED <<closes, severed, rcvd, sink, closeErr, thrVars, mu, now, exited>>

\* level = the level argument, nopts = len(options), w = options[0].Writer != nil, host = vectorHost,
\* ok = outcome of the eager dial
New(level, nopts, w, host, ok) ==
    /\ logger = "none"
    /\ LET wr == (nopts = 1 /\ w) IN
       IF nopts > 1
       THEN /\ logger' = "err"
            /\ UNCHANGED <<Level, Writer, optsWriter, VectorHost, connVars, chanVars, monVars, opened>>
       ELSE IF ~wr /\ host # ""
       THEN IF ~ok
            THEN /\ logger' = "err"
                 /\ UNCHANGED <<Level, Writer, optsWriter, VectorHost, connVars, chanVars, monVars, opened>>
            ELSE /\ logger' = "ok"
                 /\ Level' = ToUpper(level)
                 /\ Writer' = FALSE
                 /\ optsWriter' = FALSE
                 /\ VectorHost' = host
                 /\ opened' = opened + 1
                 /\ conn' = opened + 1
                 /\ lastActivityTime' = now
                 /\ stopChan' = "chan"
                 /\ chanClosed' = FALSE
                 /\ wg' = 1
                 /\ monPc' = "loop"
                 /\ UNCHANGED <<monStop, tickReady>>
       ELSE /\ logger' = "ok"
            /\ Level' = ToUpper(level)
            /\ Writer' = wr
            /\ optsWriter' = wr
            /\ VectorHost' = host
            /\ stopChan' = "chan"
            /\ chanClosed' = FALSE
            /\ UNCHANGED <<connVars, monVars, opened>>
    /\ tooManyOptions' = (nopts > 1)
    /\ quietSince' = now
    /\ evicted' = FALSE
    /\ burst' = IF conn' # 0 THEN 1 ELSE 0
    /\ UNCHANGED <<closes, severed, rcvd, sink, closeErr, thrVars, mu, now, exited>>

\* ---- manageConnection (logger.go:94-118) ----

\* an idle test of the monitor that already fires at exactly the timeout
MonitorIdleEager(t, last) == t - last >= TimeoutDuration

\* the idle test of the monitor (logger.go:107)
MonitorIdle(t, last) == t - last > TimeoutDuration

\* top of the for loop: the select statement evaluates l.stopChan
MonSelect ==
    /\ monPc = "loop"
    /\ monPc' = "select"
    /\ monStop' = stopChan
    /\ UNCHANGED <<cfgVars, connVars, chanVars, tickReady, wg, netVars, thrVars, mu, now, histVars>>

\* case <-ticker.C
MonTick ==
    /\ monPc = "select"
    /\ tickReady
    /\ tickReady' = FALSE
    /\ monPc' = "lock"
    /\ UNCHANGED <<cfgVars, connVars, chanVars, monStop, wg, netVars, thrVars, mu, now, histVars>>

\* l.mu.Lock() of the tick body
MonLock ==
    /\ monPc = "lock"
    /\ mu = "free"
    /\ mu' = "mon"
    /\ monPc' = "body"
    /\ UNCHANGED <<cfgVars, connVars, chanVars, monStop, tickReady, wg, netVars, thrVars, now, histVars>>

\* a tick body that closes the idle connection and leaves the handle set
MonBodyKeepsHandle ==
    /\ monPc = "body"
    /\ IF conn # 0 /\ MonitorIdle(now, lastActivityTime)
       THEN /\ closes' = ConnClose(closes, conn)
            /\ evicted' = TRUE
            /\ burst' = 0
            /\ UNCHANGED conn
       ELSE UNCHANGED <<closes, conn, evicted, burst>>
    /\ mu' = "free"
    /\ monPc' = "loop"
    /\ UNCHANGED <<cfgVars, lastActivityTime, chanVars, monStop, tickReady, wg,
                   opened, rcvd, sink, closeErr, thrVars, now, quietSince>>
    /\ severed' = StillSevered

\* a tick body that counts a tick on a connection it keeps as activity
MonBodyRefreshesActivity ==
    /\ monPc = "body"
    /\ IF conn # 0 /\ MonitorIdle(now, lastActivityTime)
       THEN /\ closes' = ConnClose(closes, conn)
            /\ conn' = 0
            /\ evicted' = TRUE
            /\ burst' = 0
            /\ UNCHANGED lastActivityTime
       ELSE /\ lastActivityTime' = IF conn # 0 THEN now ELSE lastActivityTime
            /\ UNCHANGED <<closes, conn, evicted, burst>>
    /\ mu' = "free"
    /\ monPc' = "loop"
    /\ UNCHANGED <<cfgVars, chanVars, monStop, tickReady, wg,
                   opened, rcvd, sink, closeErr, thrVars, now, quietSince>>
    /\ severed' = StillSevered

\* the tick body under the lock, and l.mu.Unlock()
MonBody ==
    /\ monPc = "body"
    /\ IF conn # 0 /\ MonitorIdle(now, lastActivityTime)
       THEN /\ closes' = ConnClose(closes, conn)
            /\ conn' = 0
            /\ evicted' = TRUE
            /\ burst' = 0
       ELSE UNCHANGED <<closes, conn, evicted, burst>>
    /\ mu' = "free"
    /\ monPc' = "loop"
    /\ UNCHANGED <<cfgVars, lastActivityTime, chanVars, monStop, tickReady, wg,
                   opened, rcvd, sink, closeErr, thrVars, now, quietSince>>
    /\ severed' = StillSevered

\* a monitor that returns from its select without having been signalled
MonStopUnsignalled ==
    /\ monPc = "select"
    /\ monPc' = "done"
    /\ wg' = wg - 1
    /\ tickReady' = FALSE
    /\ UNCHANGED <<cfgVars, connVars, chanVars, monStop, netVars, thrVars, mu, now, histVars>>

\* case <-l.stopChan: return, running the deferred ticker.Stop and wg.Done
MonStop ==
    /\ monPc = "select"
    /\ monStop = "chan"
    /\ chanClosed
    /\ monPc' = "done"
    /\ wg' = wg - 1
    /\ tickReady' = FALSE
    /\ UNCHANGED <<cfgVars, connVars, chanVars, monStop, netVars, thrVars, mu, now, histVars>>

\* ---- sendMessage / send (logger.go:215-321, 346-354) ----

\* an idle test of send that lets a connection idle one unit longer
SendIdleLate(t, last) == t - last > TimeoutDuration + 1

\* an idle test of send that is not strict
SendIdleEager(t, last) == t - last >= TimeoutDuration

\* the idle test of send (logger.go:237)
SendIdle(t, last) == t - last > TimeoutDuration

\* a call is made on a network logger whose handle is absent or idle
StartsDisconnected == NetworkMode /\ (conn = 0 \/ SendIdle(now, lastActivityTime))

\* an emit call that passed the level filter: sendMessage builds the record
SendCall(t) ==
    /\ logger = "ok"
    /\ pc[t] = "idle"
    /\ call' = [call EXCEPT ![t].op = "send", ![t].late = (closesDone > 0),
                            ![t].racing = StartsDisconnected]
    /\ pc' = [pc EXCEPT ![t] = "sLock"]
    /\ UNCHANGED <<cfgVars, connVars, chanVars, monVars, netVars, closesDone, mu, now, histVars>>

\* a call of method m: it returns at once when the level test fails, otherwise
\* sendMessage builds the record with the method's level (logger.go:138-212, 346-354)
Emit(t, m) ==
    /\ logger = "ok"
    /\ pc[t] = "idle"
    /\ IF Passes(m, Level)
       THEN /\ call' = [call EXCEPT ![t].op = "send", ![t].sev = Severity(m),
                                    ![t].level = MessageLevel(m),
                                    ![t].late = (closesDone > 0),
                                    ![t].racing = StartsDisconnected]
            /\ pc' = [pc EXCEPT ![t] = "sLock"]
       ELSE /\ call' = [call EXCEPT ![t].op = "emit", ![t].sev = Severity(m),
                                    ![t].result = "filtered"]
            /\ pc' = [pc EXCEPT ![t] = "done"]
    /\ UNCHANGED <<cfgVars, connVars, chanVars, monVars, netVars, closesDone, mu, now, histVars>>

\* os.Exit(1) run by a FATAL method before its sendMessage has returned
FatalExitEarly(t) ==
    /\ pc[t] \notin {"idle", "exit", "killed"}
    /\ call[t].op = "send"
    /\ call[t].sev = "FATAL"
    /\ exited' = TRUE
    /\ pc' = [u \in Calls |-> IF u = t THEN "exit"
                              ELSE IF pc[u] = "done" THEN "done" ELSE "killed"]
    /\ UNCHANGED <<logger, Level, Writer, VectorHost, optsWriter, tooManyOptions, connVars, chanVars,
                   monVars, netVars, call, closesDone, mu, now, histVars>>

\* os.Exit(1) after the sendMessage of Fatalf, Fatal and FatalError has returned
\* (logger.go:196-212): the process ends, and with it every call in progress
FatalExit(t) ==
    /\ pc[t] = "done"
    /\ call[t].op = "send"
    /\ call[t].sev = "FATAL"
    /\ exited' = TRUE
    /\ pc' = [u \in Calls |-> IF u = t THEN "exit"
                              ELSE IF pc[u] = "done" THEN "done" ELSE "killed"]
    /\ UNCHANGED <<logger, Level, Writer, VectorHost, optsWriter, tooManyOptions, connVars, chanVars,
                   monVars, netVars, call, closesDone, mu, now, histVars>>

\* a send that enters its body without waiting for the mutex to be free
SendLockBarging(t) ==
    /\ pc[t] = "sLock"
    /\ mu' = t
    /\ pc' = [pc EXCEPT ![t] = "sConnect"]
    /\ UNCHANGED <<cfgVars, connVars, chanVars, monVars, netVars, call, closesDone, now, histVars>>

\* l.mu.Lock() (logger.go:216)
SendLock(t) ==
    /\ pc[t] = "sLock"
    /\ mu = "free"
    /\ mu' = t
    /\ pc' = [pc EXCEPT ![t] = "sConnect"]
    /\ UNCHANGED <<cfgVars, connVars, chanVars, monVars, netVars, call, closesDone, now, histVars>>

\* Options.Writer is set: the record goes to the writer (logger.go:224)
UseWriter(t) ==
    /\ Writer
    /\ call' = [call EXCEPT ![t].racing = FALSE, ![t].found = "sink"]
    /\ pc' = [pc EXCEPT ![t] = "sWrite"]
    /\ UNCHANGED <<connVars, opened, closes, mu, quietSince>>

\* neither a writer nor a host: nothing to do (logger.go:258-261)
NoDestination(t) ==
    /\ ~Writer
    /\ VectorHost = ""
    /\ call' = [call EXCEPT ![t].racing = FALSE, ![t].found = "nodest", ![t].result = "skipped"]
    /\ pc' = [pc EXCEPT ![t] = "done"]
    /\ mu' = "free"
    /\ UNCHANGED <<connVars, opened, closes, quietSince>>

\* ConnectAbsent refusing to dial once the logger has been closed
ConnectAbsentLatched(t) ==
    /\ conn = 0
    /\ IF closesDone > 0
       THEN /\ call' = [call EXCEPT ![t].racing = FALSE, ![t].found = "nil", ![t].result = "dropped_closed"]
            /\ pc' = [pc EXCEPT ![t] = "done"]
            /\ mu' = "free"
            /\ UNCHANGED <<connVars, opened>>
       ELSE \E ok \in DialOutcomes :
              IF ok
              THEN /\ conn' = opened + 1
                   /\ opened' = opened + 1
                   /\ lastActivityTime' = now
                   /\ call' = [call EXCEPT ![t].racing = FALSE, ![t].found = "nil", ![t].dials = 1,
                                           ![t].fresh = opened + 1]
                   /\ pc' = [pc EXCEPT ![t] = "sWrite"]
                   /\ UNCHANGED mu
              ELSE /\ call' = [call EXCEPT ![t].racing = FALSE, ![t].found = "nil", ![t].dials = 1,
                                           ![t].envFail = TRUE, ![t].result = "dropped_dial"]
                   /\ pc' = [pc EXCEPT ![t] = "done"]
                   /\ mu' = "free"
                   /\ UNCHANGED <<connVars, opened>>
    /\ UNCHANGED closes

\* ConnectAbsent dialing a second time when the first dial failed
ConnectAbsentDialsTwice(t) ==
    /\ conn = 0
    /\ \E ok \in DialOutcomes :
         IF ok
         THEN /\ conn' = opened + 1
              /\ opened' = opened + 1
              /\ lastActivityTime' = now
              /\ call' = [call EXCEPT ![t].racing = FALSE, ![t].found = "nil", ![t].dials = 1,
                                      ![t].fresh = opened + 1]
              /\ pc' = [pc EXCEPT ![t] = "sWrite"]
              /\ UNCHANGED mu
         ELSE /\ call' = [call EXCEPT ![t].racing = FALSE, ![t].found = "nil", ![t].dials = 2,
                                      ![t].envFail = TRUE, ![t].result = "dropped_dial"]
              /\ pc' = [pc EXCEPT ![t] = "done"]
              /\ mu' = "free"
              /\ UNCHANGED <<connVars, opened>>
    /\ UNCHANGED closes

\* ConnectAbsent backing off, without a dial, once an earlier send has dropped
\* its record
ConnectAbsentBacksOff(t) ==
    /\ conn = 0
    /\ IF \E u \in Calls : /\ pc[u] = "done"
                           /\ call[u].result \in {"dropped_dial", "dropped_redial",
                                                  "dropped_retry"}
       THEN /\ call' = [call EXCEPT ![t].racing = FALSE, ![t].found = "nil",
                                    ![t].envFail = TRUE, ![t].result = "dropped_dial"]
            /\ pc' = [pc EXCEPT ![t] = "done"]
            /\ mu' = "free"
            /\ UNCHANGED <<connVars, opened>>
       ELSE \E ok \in DialOutcomes :
              IF ok
              THEN /\ conn' = opened + 1
                   /\ opened' = opened + 1
                   /\ lastActivityTime' = now
                   /\ call' = [call EXCEPT ![t].racing = FALSE, ![t].found = "nil", ![t].dials = 1,
                                           ![t].fresh = opened + 1]
                   /\ pc' = [pc EXCEPT ![t] = "sWrite"]
                   /\ UNCHANGED mu
              ELSE /\ call' = [call EXCEPT ![t].racing = FALSE, ![t].found = "nil", ![t].dials = 1,
                                           ![t].envFail = TRUE, ![t].result = "dropped_dial"]
                   /\ pc' = [pc EXCEPT ![t] = "done"]
                   /\ mu' = "free"
                   /\ UNCHANGED <<connVars, opened>>
    /\ UNCHANGED closes

\* no connection: one dial (logger.go:228-236)
ConnectAbsent(t) ==
    /\ conn = 0
    /\ \E ok \in DialOutcomes :
         IF ok
         THEN /\ conn' = opened + 1
              /\ opened' = opened + 1
              /\ lastActivityTime' = now
              /\ call' = [call EXCEPT ![t].racing = FALSE, ![t].found = "nil", ![t].dials = 1,
                                      ![t].fresh = opened + 1]
              /\ pc' = [pc EXCEPT ![t] = "sWrite"]
              /\ UNCHANGED mu
         ELSE /\ call' = [call EXCEPT ![t].racing = FALSE, ![t].found = "nil", ![t].dials = 1,
                                      ![t].envFail = TRUE, ![t].result = "dropped_dial"]
              /\ pc' = [pc EXCEPT ![t] = "done"]
              /\ mu' = "free"
              /\ UNCHANGED <<connVars, opened>>
    /\ UNCHANGED closes

\* ConnectIdle without the Close of the stale connection
ConnectIdleLeak(t) ==
    /\ conn # 0
    /\ SendIdle(now, lastActivityTime)
    /\ UNCHANGED closes
    /\ \E ok \in DialOutcomes :
         IF ok
         THEN /\ conn' = opened + 1
              /\ opened' = opened + 1
              /\ lastActivityTime' = now
              /\ call' = [call EXCEPT ![t].racing = FALSE, ![t].found = "idle", ![t].dials = 1,
                                      ![t].old = conn, ![t].fresh = opened + 1]
              /\ pc' = [pc EXCEPT ![t] = "sWrite"]
              /\ UNCHANGED mu
         ELSE /\ conn' = 0
              /\ call' = [call EXCEPT ![t].racing = FALSE, ![t].found = "idle",
                                      ![t].dials = 1, ![t].old = conn,
                                      ![t].envFail = TRUE, ![t].result = "dropped_dial"]
              /\ pc' = [pc EXCEPT ![t] = "done"]
              /\ mu' = "free"
              /\ UNCHANGED <<lastActivityTime, opened>>

\* ConnectIdle leaving the handle on the closed connection when the dial fails
ConnectIdleKeepsStaleHandle(t) ==
    /\ conn # 0
    /\ SendIdle(now, lastActivityTime)
    /\ closes' = ConnClose(closes, conn)
    /\ \E ok \in DialOutcomes :
         IF ok
         THEN /\ conn' = opened + 1
              /\ opened' = opened + 1
              /\ lastActivityTime' = now
              /\ call' = [call EXCEPT ![t].racing = FALSE, ![t].found = "idle",
                                      ![t].dials = 1, ![t].old = conn,
                                      ![t].fresh = opened + 1]
              /\ pc' = [pc EXCEPT ![t] = "sWrite"]
              /\ UNCHANGED mu
         ELSE /\ call' = [call EXCEPT ![t].racing = FALSE, ![t].found = "idle",
                                      ![t].dials = 1, ![t].old = conn,
                                      ![t].envFail = TRUE, ![t].result = "dropped_dial"]
              /\ pc' = [pc EXCEPT ![t] = "done"]
              /\ mu' = "free"
              /\ UNCHANGED <<conn, lastActivityTime, opened>>

\* a connection that has been idle for too long is replaced (logger.go:237-251)
ConnectIdle(t) ==
    /\ conn # 0
    /\ SendIdle(now, lastActivityTime)
    /\ closes' = ConnClose(closes, conn)
    /\ \E ok \in DialOutcomes :
         IF ok
         THEN /\ conn' = opened + 1
              /\ opened' = opened + 1
              /\ lastActivityTime' = now
              /\ call' = [call EXCEPT ![t].racing = FALSE, ![t].found = "idle", ![t].dials = 1,
                                      ![t].old = conn, ![t].fresh = opened + 1]
              /\ pc' = [pc EXCEPT ![t] = "sWrite"]
              /\ UNCHANGED mu
         ELSE /\ conn' = 0
              /\ call' = [call EXCEPT ![t].racing = FALSE, ![t].found = "idle",
                                      ![t].dials = 1, ![t].old = conn,
                                      ![t].envFail = TRUE, ![t].result = "dropped_dial"]
              /\ pc' = [pc EXCEPT ![t] = "done"]
              /\ mu' = "free"
              /\ UNCHANGED <<lastActivityTime, opened>>

\* a send that replaces a connection that is still fresh
ConnectLiveDialsAgain(t) ==
    /\ conn # 0
    /\ ~SendIdle(now, lastActivityTime)
    /\ opened < MaxConns
    /\ closes' = ConnClose(closes, conn)
    /\ conn' = opened + 1
    /\ opened' = opened + 1
    /\ lastActivityTime' = now
    /\ call' = [call EXCEPT ![t].racing = FALSE, ![t].found = "live", ![t].dials = 1, ![t].old = conn,
                            ![t].fresh = opened + 1]
    /\ pc' = [pc EXCEPT ![t] = "sWrite"]
    /\ UNCHANGED mu

\* a connection that is still fresh is used as it is (logger.go:253-257)
ConnectLive(t) ==
    /\ conn # 0
    /\ ~SendIdle(now, lastActivityTime)
    /\ call' = [call EXCEPT ![t].racing = FALSE, ![t].found = "live", ![t].old = conn]
    /\ pc' = [pc EXCEPT ![t] = "sWrite"]
    /\ UNCHANGED <<connVars, opened, closes, mu>>

\* choice of the destination and the connection logic (logger.go:224-261)
SendConnect(t) ==
    /\ pc[t] = "sConnect"
    /\ \/ UseWriter(t)
       \/ NoDestination(t)
       \/ /\ NetworkMode
          /\ quietSince' = IF quietSince >= 0 THEN now ELSE -1
          /\ \/ ConnectAbsent(t)
             \/ ConnectIdle(t)
             \/ ConnectLive(t)
    /\ evicted' = FALSE
    /\ burst' = IF opened' > opened THEN burst + 1
                ELSE IF call'[t].dials > 0 THEN 0 ELSE burst
    /\ severed' = StillSevered
    /\ UNCHANGED <<cfgVars, chanVars, monVars, rcvd, sink, closeErr, closesDone, now>>

\* what a write of buffer b of record t puts on the wire: the whole encoded
\* record when the buffer is full, the unread rest of it after an earlier WriteTo
Payload(t, b) == IF b = "full" THEN t ELSE "fragment"

\* the buffer of the retried write is encoded anew (logger.go:293-294)
RetryBuf(first) == "full"

\* a successful write that leaves lastActivityTime as it was
ActivityNotRefreshed(last, t) == last

\* lastActivityTime after a successful network write (logger.go:309, 318-320)
ActivityAfterWrite(last, t) == t

\* a write to Options.Writer that is tried a second time after a failure
WriteSinkRetries(t) ==
    /\ call[t].found = "sink"
    /\ \E ok \in BOOLEAN :
         IF ok
         THEN /\ sink' = Append(sink, t)
              /\ call' = [call EXCEPT ![t].writes = 1, ![t].result = "sink_ok"]
         ELSE /\ sink' = Append(sink, t)
              /\ call' = [call EXCEPT ![t].writes = 2, ![t].result = "sink_ok"]
    /\ pc' = [pc EXCEPT ![t] = "done"]
    /\ mu' = "free"
    /\ UNCHANGED <<connVars, closes, rcvd, quietSince>>

\* the write to Options.Writer; a failure is reported and not retried (logger.go:272, 310-314)
WriteSink(t) ==
    /\ call[t].found = "sink"
    /\ \E ok \in BOOLEAN :
         IF ok
         THEN /\ sink' = Append(sink, t)
              /\ call' = [call EXCEPT ![t].writes = 1, ![t].result = "sink_ok"]
         ELSE /\ call' = [call EXCEPT ![t].writes = 1, ![t].result = "sink_fail"]
              /\ UNCHANGED sink
    /\ pc' = [pc EXCEPT ![t] = "done"]
    /\ mu' = "free"
    /\ UNCHANGED <<connVars, closes, rcvd, quietSince>>

\* a first write whose record overtakes the records already on the connection
WriteOkOvertakes(t) ==
    /\ call[t].found # "sink"
    /\ TRUE \in WriteOutcomes(conn)
    /\ rcvd' = [rcvd EXCEPT ![conn] = <<Payload(t, "full")>> \o @]
    /\ lastActivityTime' = ActivityAfterWrite(lastActivityTime, now)
    /\ call' = [call EXCEPT ![t].writes = 1, ![t].buf = "drained", ![t].result = "sent"]
    /\ pc' = [pc EXCEPT ![t] = "done"]
    /\ mu' = "free"
    /\ UNCHANGED <<conn, closes, sink, quietSince>>

\* the first write to the connection succeeds (logger.go:272, 318-320)
WriteOk(t) ==
    /\ call[t].found # "sink"
    /\ TRUE \in WriteOutcomes(conn)
    /\ rcvd' = [rcvd EXCEPT ![conn] = Append(@, Payload(t, "full"))]
    /\ lastActivityTime' = ActivityAfterWrite(lastActivityTime, now)
    /\ call' = [call EXCEPT ![t].writes = 1, ![t].buf = "drained", ![t].result = "sent"]
    /\ pc' = [pc EXCEPT ![t] = "done"]
    /\ mu' = "free"
    /\ UNCHANGED <<conn, closes, sink, quietSince>>

\* the first write to the connection fails: the connection is closed (logger.go:272-279)
WriteFailed(t) ==
    /\ call[t].found # "sink"
    /\ FALSE \in WriteOutcomes(conn)
    /\ closes' = ConnClose(closes, conn)
    /\ conn' = 0
    /\ call' = [call EXCEPT ![t].writes = 1, ![t].buf = "drained",
                            ![t].sev1 = (conn \in severed),
                            ![t].envFail = (conn \notin severed)]
    /\ pc' = [pc EXCEPT ![t] = "sRedial"]
    /\ quietSince' = -1
    /\ UNCHANGED <<lastActivityTime, rcvd, sink, mu>>

\* serialization and the first write (logger.go:264-280, 310-320)
SendWrite(t) ==
    /\ pc[t] = "sWrite"
    /\ \/ WriteSink(t)
       \/ WriteOk(t)
       \/ WriteFailed(t)
    /\ severed' = StillSevered
    /\ burst' = IF pc'[t] = "sRedial" THEN 0 ELSE burst
    /\ UNCHANGED <<cfgVars, chanVars, monVars, opened, closeErr, closesDone, now, evicted>>

\* a reconnect after which send returns without retrying the write
RedialOkNoRetry(t) ==
    /\ TRUE \in DialOutcomes
    /\ conn' = opened + 1
    /\ opened' = opened + 1
    /\ lastActivityTime' = now
    /\ call' = [call EXCEPT ![t].dials = @ + 1, ![t].fresh = opened + 1,
                            ![t].result = "reconnected"]
    /\ pc' = [pc EXCEPT ![t] = "done"]
    /\ mu' = "free"

\* a reconnect that keeps the new connection without touching lastActivityTime
RedialOkStaleActivity(t) ==
    /\ TRUE \in DialOutcomes
    /\ conn' = opened + 1
    /\ opened' = opened + 1
    /\ UNCHANGED lastActivityTime
    /\ call' = [call EXCEPT ![t].dials = @ + 1, ![t].fresh = opened + 1]
    /\ pc' = [pc EXCEPT ![t] = "sRetry"]
    /\ UNCHANGED mu

\* the reconnect succeeded: the connection is kept and the write is retried (logger.go:287-289)
RedialOk(t) ==
    /\ TRUE \in DialOutcomes
    /\ conn' = opened + 1
    /\ opened' = opened + 1
    /\ lastActivityTime' = now
    /\ call' = [call EXCEPT ![t].dials = @ + 1, ![t].fresh = opened + 1]
    /\ pc' = [pc EXCEPT ![t] = "sRetry"]
    /\ UNCHANGED mu

\* a failed reconnect that is followed by one more failing dial
RedialFailedTriesAgain(t) ==
    /\ conn' = 0
    /\ call' = [call EXCEPT ![t].dials = @ + 2, ![t].envFail = TRUE,
                            ![t].result = "dropped_redial"]
    /\ pc' = [pc EXCEPT ![t] = "done"]
    /\ mu' = "free"
    /\ UNCHANGED <<lastActivityTime, opened>>

\* the reconnect failed: the record is dropped (logger.go:282-286)
RedialFailed(t) ==
    /\ conn' = 0
    /\ call' = [call EXCEPT ![t].dials = @ + 1, ![t].envFail = TRUE,
                            ![t].result = "dropped_redial"]
    /\ pc' = [pc EXCEPT ![t] = "done"]
    /\ mu' = "free"
    /\ UNCHANGED <<lastActivityTime, opened>>

\* the single reconnect after a failed network write (logger.go:281-289)
SendRedial(t) ==
    /\ pc[t] = "sRedial"
    /\ \/ RedialOk(t)
       \/ RedialFailed(t)
    /\ burst' = IF opened' > opened THEN burst + 1 ELSE 0
    /\ UNCHANGED <<cfgVars, chanVars, monVars, closes, severed, rcvd, sink, closeErr,
                   closesDone, now, quietSince, evicted>>

\* the retried write succeeds (logger.go:298, 308-309, 314)
RetryOk(t) ==
    /\ TRUE \in WriteOutcomes(conn)
    /\ rcvd' = [rcvd EXCEPT ![conn] = Append(@, Payload(t, RetryBuf(call[t].buf)))]
    /\ lastActivityTime' = ActivityAfterWrite(lastActivityTime, now)
    /\ call' = [call EXCEPT ![t].writes = @ + 1, ![t].result = "resent"]
    /\ UNCHANGED <<conn, closes>>

\* a failed retry that keeps the new connection for later sends
RetryFailedKeepsConn(t) ==
    /\ FALSE \in WriteOutcomes(conn)
    /\ call' = [call EXCEPT ![t].writes = @ + 1, ![t].envFail = TRUE,
                            ![t].result = "dropped_retry"]
    /\ UNCHANGED <<conn, closes, lastActivityTime, rcvd>>

\* the retried write fails: the new connection is closed, the record dropped (logger.go:298-307)
RetryFailed(t) ==
    /\ FALSE \in WriteOutcomes(conn)
    /\ closes' = ConnClose(closes, conn)
    /\ conn' = 0
    /\ call' = [call EXCEPT ![t].writes = @ + 1, ![t].envFail = TRUE,
                            ![t].result = "dropped_retry"]
    /\ UNCHANGED <<lastActivityTime, rcvd>>

\* the retried write of a freshly encoded copy (logger.go:291-314)
SendRetry(t) ==
    /\ pc[t] = "sRetry"
    /\ \/ RetryOk(t)
       \/ RetryFailed(t)
    /\ pc' = [pc EXCEPT ![t] = "done"]
    /\ mu' = "free"
    /\ severed' = StillSevered
    /\ burst' = IF conn' = 0 THEN 0 ELSE burst
    /\ UNCHANGED <<cfgVars, chanVars, monVars, opened, sink, closeErr, closesDone, now,
                   quietSince, evicted>>

\* ---- Close (logger.go:323-343) ----

CloseCall(t) ==
    /\ logger = "ok"
    /\ pc[t] = "idle"
    /\ call' = [call EXCEPT ![t].op = "close", ![t].late = (closesDone > 0)]
    /\ pc' = [pc EXCEPT ![t] = "cLock"]
    /\ quietSince' = -1
    /\ UNCHANGED <<cfgVars, connVars, chanVars, monVars, netVars, closesDone, mu, now, evicted, burst>>

\* l.mu.Lock() (logger.go:324)
CloseLock(t) ==
    /\ pc[t] = "cLock"
    /\ mu = "free"
    /\ mu' = t
    /\ pc' = [pc EXCEPT ![t] = "cSignal"]
    /\ UNCHANGED <<cfgVars, connVars, chanVars, monVars, netVars, call, closesDone,
                   now, histVars>>

\* signalling the monitor without the nil test: closing a nil channel panics
CloseSignalNoGuard(t) ==
    /\ pc[t] = "cSignal"
    /\ IF stopChan # "nil"
       THEN /\ chanClosed' = TRUE
            /\ stopChan' = "nil"
            /\ pc' = [pc EXCEPT ![t] = "cWait"]
            /\ UNCHANGED call
       ELSE /\ call' = [call EXCEPT ![t].result = "panic"]
            /\ pc' = [pc EXCEPT ![t] = "cWait"]
            /\ UNCHANGED chanVars
    /\ UNCHANGED <<cfgVars, connVars, monVars, netVars, closesDone, mu, now, histVars>>

\* signalling the monitor (logger.go:328-331)
CloseSignal(t) ==
    /\ pc[t] = "cSignal"
    /\ IF stopChan # "nil"
       THEN /\ chanClosed' = TRUE
            /\ stopChan' = "nil"
       ELSE UNCHANGED chanVars
    /\ pc' = [pc EXCEPT ![t] = "cWait"]
    /\ UNCHANGED <<cfgVars, connVars, monVars, netVars, call, closesDone, mu, now, histVars>>

\* Close without the join of the monitor
CloseWaitNoJoin(t) ==
    /\ pc[t] = "cWait"
    /\ pc' = [pc EXCEPT ![t] = "cFinish"]
    /\ UNCHANGED <<cfgVars, connVars, chanVars, monVars, netVars, call, closesDone,
                   mu, now, histVars>>

\* l.wg.Wait() (logger.go:334), still holding l.mu
CloseWait(t) ==
    /\ pc[t] = "cWait"
    /\ wg = 0
    /\ pc' = [pc EXCEPT ![t] = "cFinish"]
    /\ UNCHANGED <<cfgVars, connVars, chanVars, monVars, netVars, call, closesDone,
                   mu, now, histVars>>

\* Close returning the error of l.conn.Close() without clearing l.conn
CloseConnKeepsHandle(t) ==
    IF conn # 0
    THEN /\ closes' = ConnClose(closes, conn)
         /\ UNCHANGED conn
         /\ \E err \in {"nil", "err"} :
              /\ closeErr' = err
              /\ call' = [call EXCEPT ![t].old = conn, ![t].ret = err, ![t].result = "closed"]
    ELSE /\ call' = [call EXCEPT ![t].ret = "nil", ![t].result = "closed"]
         /\ UNCHANGED <<conn, closes, closeErr>>

\* closing the connection and returning its error (logger.go:337-342)
CloseConn(t) ==
    IF conn # 0
    THEN /\ closes' = ConnClose(closes, conn)
         /\ conn' = 0
         /\ \E err \in {"nil", "err"} :
              /\ closeErr' = err
              /\ call' = [call EXCEPT ![t].old = conn, ![t].ret = err, ![t].result = "closed"]
    ELSE /\ call' = [call EXCEPT ![t].ret = "nil", ![t].result = "closed"]
         /\ UNCHANGED <<conn, closes, closeErr>>

\* clearing the writer, closing the connection, the deferred unlock (logger.go:336-342)
CloseFinish(t) ==
    /\ pc[t] = "cFinish"
    /\ Writer' = FALSE
    /\ CloseConn(t)
    /\ pc' = [pc EXCEPT ![t] = "done"]
    /\ mu' = "free"
    /\ closesDone' = closesDone + 1
    /\ severed' = StillSevered
    /\ UNCHANGED <<logger, Level, exited, optsWriter, tooManyOptions, VectorHost,
                   lastActivityTime, chanVars, monVars,
                   opened, rcvd, sink, now, quietSince, evicted>>
    /\ burst' = 0

\* ---- the environment ----

\* the clock advances by one unit
Advance ==
    /\ logger = "ok"
    /\ now < MaxTime
    /\ now' = now + 1
    /\ quietSince' = IF quietSince >= 0 /\ now + 1 - quietSince < TimeoutDuration
                     THEN quietSince ELSE -1
    /\ burst' = 0
    /\ UNCHANGED <<cfgVars, connVars, chanVars, monVars, netVars, thrVars, mu, evicted>>

\* the ticker of a running monitor delivers a tick into ticker.C (logger.go:98)
Tick ==
    /\ monPc \in {"loop", "select", "lock", "body"}
    /\ ~tickReady
    /\ tickReady' = TRUE
    /\ UNCHANGED <<cfgVars, connVars, chanVars, monPc, monStop, wg, netVars, thrVars,
                   mu, now, histVars>>

\* the collector (or the network) severs a connection the logger still holds open
Sever(c) ==
    /\ c \in OpenConns
    /\ c \notin severed
    /\ severed' = severed \cup {c}
    /\ burst' = 0
    /\ UNCHANGED <<cfgVars, connVars, chanVars, monVars, opened, closes, rcvd, sink,
                   closeErr, thrVars, mu, now, quietSince, evicted>>

Next ==
    \/ \E nopts \in 0..2, w \in BOOLEAN, host \in Hosts, ok \in BOOLEAN :
          New("info", nopts, w, host, ok)
    \/ MonSelect
    \/ MonTick
    \/ MonLock
    \/ MonBody
    \/ MonStop
    \/ \E t \in Calls : SendCall(t)
    \/ \E t \in Calls : SendLock(t)
    \/ \E t \in Calls : SendConnect(t)
    \/ \E t \in Calls : SendWrite(t)
    \/ \E t \in Calls : SendRedial(t)
    \/ \E t \in Calls : SendRetry(t)
    \/ \E t \in Calls : CloseCall(t)
    \/ \E t \in Calls : CloseLock(t)
    \/ \E t \in Calls : CloseSignal(t)
    \/ \E t \in Calls : CloseWait(t)
    \/ \E t \in Calls : CloseFinish(t)
    \/ Advance
    \/ Tick
    \/ \E c \in ConnIds : Sever(c)

Spec == Init /\ [][Next]_vars

\* the emit methods on their own: New with any level, calls of every method and
\* the steps of their sends, without Close, the monitor and the clock
EmitNext ==
    \/ \E level \in LevelInputs, nopts \in 0..1, w \in BOOLEAN, host \in Hosts, ok \in BOOLEAN :
          New(level, nopts, w, host, ok)
    \/ \E t \in Calls, m \in Methods : Emit(t, m)
    \/ \E t \in Calls : SendLock(t)
    \/ \E t \in Calls : SendConnect(t)
    \/ \E t \in Calls : SendWrite(t)
    \/ \E t \in Calls : SendRedial(t)
    \/ \E t \in Calls : SendRetry(t)
    \/ \E t \in Calls : FatalExit(t)

EmitSpec == Init /\ [][EmitNext]_vars

\* ---- scheduling ----

\* Every goroutine that can take a step eventually takes it; sync.Mutex hands
\* the lock to a goroutine that keeps waiting for it (starvation mode), so a
\* lock acquisition that is enabled again and again eventually happens.  The
\* clock, the ticker, the network and the application's calls are not forced.
Fairness ==
    /\ WF_vars(MonSelect)
    /\ WF_vars(MonTick \/ MonStop)
    /\ SF_vars(MonLock)
    /\ WF_vars(MonBody)
    /\ \A t \in Calls :
         /\ SF_vars(SendLock(t))
         /\ WF_vars(SendConnect(t))
         /\ WF_vars(SendWrite(t))
         /\ WF_vars(SendRedial(t))
         /\ WF_vars(SendRetry(t))
         /\ SF_vars(CloseLock(t))
         /\ WF_vars(CloseSignal(t))
         /\ WF_vars(CloseWait(t))
         /\ WF_vars(CloseFinish(t))

FairSpec == Spec /\ Fairness

\* ---- helpers of the properties ----

\* how often record r occurs in the sequence q
RECURSIVE CountIn(_, _)
CountIn(r, q) == IF q = <<>> THEN 0 ELSE (IF Head(q) = r THEN 1 ELSE 0) + CountIn(r, Tail(q))

\* how often record r arrived at the collector over the connections 1..n, given
\* what each connection received
RECURSIVE DeliveredIn(_, _, _)
DeliveredIn(r, rc, n) == IF n = 0 THEN 0 ELSE CountIn(r, rc[n]) + DeliveredIn(r, rc, n - 1)

Delivered(r) == DeliveredIn(r, rcvd, opened)

\* the dial a send makes to obtain a connection before its first write
FirstDials(t) == IF call[t].found \in {"nil", "idle"} THEN 1 ELSE 0

\* ---- properties ----

\* C1: in every reachable state at most one connection dialed by the logger
\* is open, i.e. dialed and not yet closed by the logger.
C1_AtMostOneOpen == Cardinality(OpenConns) <= 1

\* a second connection has been dialed and is the only open one
C1_Witness == opened >= 2 /\ OpenConns = {conn} /\ closes[1] = 1

\* C2: every Close call returns: Close and the monitor never deadlock, i.e.
\* Close never waits in wg.Wait for a monitor that is itself blocked in
\* l.mu.Lock() on the mutex Close holds.
C2_NoCloseMonitorDeadlock ==
    \A t \in Calls : (pc[t] = "cWait" /\ mu = t) => monPc # "lock"

\* C3: every send call eventually returns to its caller, whatever the
\* interleaving with other sends, monitor ticks and Close.
C3_SendReturns == \A t \in Calls : (pc[t] = "sLock") ~> (pc[t] = "done")

\* C4: Close closes the connection handle only after the monitor has
\* terminated: once Close is past wg.Wait, the monitor is not running and
\* executes no tick body any more.
C4_CloseAfterMonitor ==
    ((\E t \in Calls : pc[t] = "cFinish") \/ closesDone > 0) => monPc \in {"none", "done"}

\* Close has closed the connection of a logger whose monitor had been started
C4_Witness == closesDone > 0 /\ monPc = "done" /\ closeErr # "none" /\ closes[1] = 1

\* C5: when the first write of a network send fails, send closes and clears
\* the handle and dials exactly once; if the dial succeeds the record is
\* written once more, from a freshly encoded buffer; if the dial or the
\* retried write fails the handle ends closed and absent, the record is
\* dropped and send returns.  No record is written more than twice and the
\* retry dials at most once.
C5_Step(t) ==
    /\ (pc[t] = "sWrite" /\ pc'[t] = "sRedial") =>
          /\ conn # 0 /\ closes'[conn] = closes[conn] + 1
          /\ conn' = 0
          /\ opened' = opened
    /\ (pc[t] = "sRedial" /\ pc'[t] # "sRedial") =>
          /\ call'[t].dials = call[t].dials + 1
          /\ call'[t].writes = 1
          /\ \/ /\ pc'[t] = "sRetry"
                /\ opened' = opened + 1
                /\ conn' = opened'
                /\ closes'[conn'] = 0
             \/ /\ pc'[t] = "done"
                /\ opened' = opened
                /\ conn' = 0
                /\ mu' = "free"
                /\ DeliveredIn(t, rcvd', opened') = 0
    /\ (pc[t] = "sRetry" /\ pc'[t] # "sRetry") =>
          /\ pc'[t] = "done"
          /\ mu' = "free"
          /\ opened' = opened
          /\ call'[t].writes = 2
          /\ \/ /\ rcvd'[conn] = Append(rcvd[conn], t)
                /\ DeliveredIn(t, rcvd', opened') = 1
                /\ conn' = conn
                /\ closes' = closes
             \/ /\ rcvd' = rcvd
                /\ DeliveredIn(t, rcvd', opened') = 0
                /\ conn' = 0
                /\ closes'[conn] = closes[conn] + 1
    /\ call'[t].writes <= 2
    /\ call'[t].dials - (IF call'[t].found \in {"nil", "idle"} THEN 1 ELSE 0) <= 1

C5_WriteFailureRetry == [][\A t \in Calls : C5_Step(t)]_vars

\* a send whose first write failed has returned after a successful retry
C5_Witness ==
    \E t \in Calls : pc[t] = "done" /\ call[t].result = "resent" /\ call[t].writes = 2

\* C6: a send that finds its connection severed, and meets no other failure
\* of the transport, reconnects with one dial and its record arrives at the
\* collector exactly once, on the new connection.
C6_SeveredDeliveredOnce ==
    \A t \in Calls :
        (pc[t] = "done" /\ call[t].op = "send" /\ call[t].sev1 /\ ~call[t].envFail) =>
            /\ call[t].result = "resent"
            /\ call[t].dials = FirstDials(t) + 1
            /\ Delivered(t) = 1
            /\ CountIn(t, rcvd[call[t].fresh]) = 1
            /\ Delivered("fragment") = 0

\* the connection used by an earlier send was severed and the next send delivered its record
C6_Witness ==
    \E t, u \in Calls :
        /\ pc[t] = "done" /\ call[t].sev1 /\ ~call[t].envFail /\ call[t].found = "live"
        /\ pc[u] = "done" /\ call[u].result = "sent"
        /\ rcvd[call[t].old] = <<u>>
        /\ rcvd[call[t].fresh] = <<t>>

\* C7: a network send that finds no connection dials exactly once; when the
\* dial fails it writes nothing, leaves the handle absent and returns.
C7_Step(t) ==
    (pc[t] = "sConnect" /\ pc'[t] # "sConnect" /\ NetworkMode /\ conn = 0) =>
        /\ call'[t].dials = 1
        /\ \/ /\ opened' = opened + 1
              /\ conn' = opened'
              /\ pc'[t] = "sWrite"
           \/ /\ opened' = opened
              /\ conn' = 0
              /\ pc'[t] = "done"
              /\ mu' = "free"
              /\ call'[t].writes = 0
              /\ rcvd' = rcvd
              /\ sink' = sink

C7_AbsentHandleOneDial == [][\A t \in Calls : C7_Step(t)]_vars

\* a send found no connection, its dial failed and it returned
C7_Witness ==
    \E t \in Calls :
        /\ pc[t] = "done" /\ call[t].found = "nil" /\ call[t].result = "dropped_dial"
        /\ conn = 0 /\ opened >= 1

\* C8: a send that finds a connection which has been idle for longer than the
\* idle timeout closes it, clears it and dials a fresh one; when the dial and
\* the write succeed the send has dialed exactly once and its record arrives
\* exactly once, on the new connection, which is distinct from the old one
\* (the same holds, without an old connection, when the monitor has evicted
\* the idle connection before the send).
C8_Step(t) ==
    (/\ pc[t] = "sConnect" /\ pc'[t] # "sConnect" /\ NetworkMode
     /\ conn # 0 /\ now - lastActivityTime > TimeoutDuration) =>
        /\ closes'[conn] = closes[conn] + 1
        /\ call'[t].dials = 1
        /\ \/ /\ opened' = opened + 1
              /\ conn' = opened'
              /\ conn' # conn
              /\ lastActivityTime' = now
              /\ pc'[t] = "sWrite"
           \/ /\ opened' = opened
              /\ conn' = 0
              /\ pc'[t] = "done"

C8_Result(t) ==
    (pc[t] = "done" /\ call[t].found \in {"idle", "nil"} /\ call[t].result = "sent") =>
        /\ call[t].dials = 1
        /\ CountIn(t, rcvd[call[t].fresh]) = 1
        /\ Delivered(t) = 1
        /\ call[t].found = "idle" =>
              /\ call[t].fresh # call[t].old
              /\ closes[call[t].old] = 1
              /\ CountIn(t, rcvd[call[t].old]) = 0

C8_IdleReconnect ==
    /\ [](\A t \in Calls : C8_Result(t))
    /\ [][\A t \in Calls : C8_Step(t)]_vars

\* two sends separated by more than the idle timeout: two connections, one record each
C8_Witness ==
    \E t, u \in Calls :
        /\ pc[t] = "done" /\ call[t].found = "idle" /\ call[t].result = "sent"
        /\ pc[u] = "done" /\ call[u].found = "live" /\ call[u].result = "sent"
        /\ rcvd[call[t].old] = <<u>>
        /\ rcvd[call[t].fresh] = <<t>>
        /\ opened = 2

\* C9: as long as every send arrives less than the idle timeout after the
\* arrival before it (New being the first) and no write fails, the collector
\* sees exactly one connection, the one dialed by New: it is open, it is the
\* handle, and every record sent so far was written on it.
C9_OneConnection ==
    (quietSince >= 0 /\ monPc # "none") =>
        /\ opened = 1
        /\ conn = 1
        /\ closes[1] = 0
        /\ \A t \in Calls : pc[t] = "done" =>
              /\ call[t].result = "sent"
              /\ CountIn(t, rcvd[1]) = 1

\* all sends went over the connection of New during a period longer than the idle timeout
C9_Witness ==
    /\ quietSince >= 0 /\ monPc # "none"
    /\ now > TimeoutDuration
    /\ Len(rcvd[1]) >= 2
    /\ opened = 1

\* C10: when Close returns on a logger built in network mode, the monitor
\* has terminated, the handle is absent, the connection that was live has
\* been closed, Options.Writer is cleared, and the value returned is the
\* error of that l.conn.Close() (nil when there was no handle).
C10_Step(t) ==
    (pc[t] = "cFinish" /\ pc'[t] = "done" /\ monPc # "none") =>
        /\ monPc' = "done"
        /\ conn' = 0
        /\ \A c \in 1..opened' : closes'[c] >= 1
        /\ Writer' = FALSE
        /\ IF conn # 0
           THEN /\ closes'[conn] = closes[conn] + 1
                /\ closeErr' \in {"nil", "err"}
                /\ call'[t].ret = closeErr'
           ELSE /\ call'[t].ret = "nil"
                /\ closes' = closes

C10_CloseResult == [][\A t \in Calls : C10_Step(t)]_vars

\* Close has returned the error of closing the live connection
C10_Witness ==
    \E t \in Calls :
        /\ pc[t] = "done" /\ call[t].op = "close" /\ call[t].ret = "err"
        /\ monPc = "done" /\ conn = 0 /\ closes[1] = 1

\* C11 as claimed: a Close made after a Close has returned is a no-op: it
\* does not signal the stop channel again, does not wait for the monitor,
\* changes nothing of the connection and returns nil.
C11_LateCloseStep(t) ==
    (call[t].op = "close" /\ call[t].late /\ pc'[t] # pc[t]) =>
        /\ call'[t].result # "panic"
        /\ pc[t] = "cSignal" => (stopChan = "nil" /\ UNCHANGED chanVars)
        /\ pc[t] = "cWait" => wg = 0
        /\ pc[t] = "cFinish" =>
              /\ pc'[t] = "done"
              /\ call'[t].ret = "nil"
              /\ conn' = conn
              /\ closes' = closes

C11_LateCloseNoOp == [][\A t \in Calls : C11_LateCloseStep(t)]_vars

\* C11 amended: a Close made after a Close has returned does not signal the
\* stop channel again and does not wait for the monitor; with no live handle
\* it changes nothing and returns nil; when a send has re-established a
\* connection in between, it closes that connection, clears the handle and
\* returns the error of that close.
C11_LateCloseAmendedStep(t) ==
    (call[t].op = "close" /\ call[t].late /\ pc'[t] # pc[t]) =>
        /\ call'[t].result # "panic"
        /\ pc[t] = "cSignal" => (stopChan = "nil" /\ UNCHANGED chanVars)
        /\ pc[t] = "cWait" => wg = 0
        /\ pc[t] = "cFinish" =>
              /\ pc'[t] = "done"
              /\ conn' = 0
              /\ IF conn = 0
                 THEN call'[t].ret = "nil" /\ closes' = closes
                 ELSE call'[t].ret = closeErr' /\ closes'[conn] = closes[conn] + 1

C11_LateCloseAmended == [][\A t \in Calls : C11_LateCloseAmendedStep(t)]_vars

\* a second Close has returned nil after the first one, with no handle live
C11_Witness ==
    \E t \in Calls :
        /\ pc[t] = "done" /\ call[t].op = "close" /\ call[t].late
        /\ call[t].ret = "nil" /\ call[t].old = 0 /\ closesDone = 2

\* C12: a send made after Close has returned, on a logger with a host, finds
\* the handle absent (unless another send reconnected before it) and then
\* dials exactly once; when the collector is reachable (the dial succeeds and
\* the new connection is neither severed nor failing) it writes its record
\* exactly once, on the connection it dialed, and returns normally.
C12_Step(t) ==
    (/\ pc[t] = "sConnect" /\ pc'[t] # "sConnect"
     /\ call[t].late /\ VectorHost # "" /\ conn = 0) =>
        /\ ~Writer
        /\ call'[t].dials = 1
        /\ call'[t].found = "nil"
        /\ \/ conn' = opened + 1 /\ opened' = opened + 1 /\ pc'[t] = "sWrite"
           \/ call'[t].envFail /\ opened' = opened

C12_Result(t) ==
    (/\ pc[t] = "done" /\ call[t].op = "send" /\ call[t].late
     /\ call[t].found = "nil" /\ ~call[t].envFail /\ ~call[t].sev1) =>
        /\ call[t].result = "sent"
        /\ call[t].dials = 1
        /\ call[t].writes = 1
        /\ CountIn(t, rcvd[call[t].fresh]) = 1
        /\ Delivered(t) = 1

C12_SendAfterCloseReconnects ==
    /\ [](\A t \in Calls : C12_Result(t))
    /\ [][\A t \in Calls : C12_Step(t)]_vars

\* a send made after Close had closed the connection of New delivered its record
\* on a second connection
C12_Witness ==
    \E t \in Calls :
        /\ pc[t] = "done" /\ call[t].late /\ call[t].result = "sent"
        /\ call[t].fresh = 2 /\ closes[1] = 1 /\ closes[2] = 0
        /\ rcvd[2] = <<t>> /\ conn = 2

\* C13: the tick body of the monitor runs with the lock held and closes and
\* clears the handle if and only if a handle is live and has been idle for
\* more than the idle timeout; the first send after such an eviction finds the
\* handle absent and dials exactly once.
C13_TickStep ==
    (monPc = "body" /\ monPc' # "body") =>
        /\ mu = "mon"
        /\ IF conn # 0 /\ now - lastActivityTime > TimeoutDuration
           THEN /\ conn' = 0
                /\ closes'[conn] = closes[conn] + 1
                /\ \A c \in ConnIds \ {conn} : closes'[c] = closes[c]
                /\ evicted'
           ELSE /\ conn' = conn
                /\ closes' = closes
                /\ evicted' = evicted

C13_SendStep(t) ==
    (pc[t] = "sConnect" /\ pc'[t] # "sConnect" /\ evicted) =>
        /\ conn = 0
        /\ NetworkMode
        /\ call'[t].found = "nil"
        /\ call'[t].dials = 1
        /\ \/ opened' = opened + 1 /\ conn' = opened' /\ pc'[t] = "sWrite"
           \/ opened' = opened /\ conn' = 0 /\ pc'[t] = "done"

C13_MonitorEviction == [][C13_TickStep /\ \A t \in Calls : C13_SendStep(t)]_vars

\* the monitor evicted the idle connection of New, and the only send made so
\* far then dialed a second connection and delivered its record on it
C13_Witness ==
    \E t \in Calls :
        /\ pc[t] = "done" /\ call[t].op = "send" /\ call[t].found = "nil"
        /\ call[t].result = "sent" /\ call[t].fresh = 2 /\ rcvd[2] = <<t>>
        /\ closes[1] = 1 /\ closesDone = 0
        /\ \A u \in Calls \ {t} : pc[u] = "idle"

\* C14: cancellation always wins over the tick: once Close has closed the stop
\* channel, a monitor waiting in its select leaves it only by terminating; it
\* never takes the tick case again, even when a tick is ready as well.
C14_CancellationWins ==
    [][(chanClosed /\ monPc = "select") => monPc' \in {"select", "done"}]_vars

C16_Step(t) ==
    /\ (pc[t] = "sConnect" /\ pc'[t] # "sConnect" /\ Writer) =>
          /\ pc'[t] = "sWrite"
          /\ call'[t].found = "sink"
          /\ call'[t].dials = 0
          /\ UNCHANGED <<conn, lastActivityTime, opened, closes, rcvd, sink>>
    /\ (pc[t] = "sWrite" /\ pc'[t] # "sWrite" /\ call[t].found = "sink") =>
          /\ pc'[t] = "done"
          /\ mu' = "free"
          /\ call'[t].writes = 1
          /\ call'[t].dials = 0
          /\ UNCHANGED <<conn, lastActivityTime, opened, closes, rcvd>>
          /\ \/ call'[t].result = "sink_ok" /\ sink' = Append(sink, t)
             \/ call'[t].result = "sink_fail" /\ sink' = sink

C16_Result(t) ==
    (pc[t] = "done" /\ call[t].found = "sink") =>
        /\ call[t].writes = 1
        /\ call[t].dials = 0
        /\ CountIn(t, sink) = (IF call[t].result = "sink_ok" THEN 1 ELSE 0)
        /\ Delivered(t) = 0

C16_SinkWriteOnce ==
    /\ [](\A t \in Calls : C16_Result(t))
    /\ [][\A t \in Calls : C16_Step(t)]_vars

\* a write to the sink failed and the send returned; another record reached the sink
C16_Witness ==
    \E t, u \in Calls :
        /\ pc[t] = "done" /\ call[t].result = "sink_fail"
        /\ pc[u] = "done" /\ call[u].result = "sink_ok"
        /\ sink = <<u>> /\ opened = 0 /\ conn = 0

\* C20: when New returns a logger in network mode (no redirect sink, a host),
\* it has dialed exactly once, the handle is that live connection,
\* lastActivityTime is set and exactly one monitor runs; when New returns an
\* error (its dial failed) there is no logger, no connection and no monitor;
\* with a redirect sink or an empty host New dials nothing and starts no monitor.
C20_Step ==
    (logger = "none" /\ logger' # "none") =>
        /\ (logger' = "ok" /\ ~Writer' /\ VectorHost' # "") =>
              /\ opened' = opened + 1
              /\ conn' = opened'
              /\ closes'[conn'] = 0
              /\ lastActivityTime' = now
              /\ monPc' = "loop"
              /\ wg' = 1
              /\ stopChan' = "chan" /\ ~chanClosed'
        /\ (logger' = "ok" /\ (Writer' \/ VectorHost' = "")) =>
              /\ opened' = opened
              /\ conn' = 0
              /\ monPc' = "none"
              /\ wg' = 0
        /\ logger' = "err" =>
              /\ opened' = opened
              /\ conn' = 0
              /\ monPc' = "none"
              /\ wg' = 0

C20_NewEagerDial == [][C20_Step]_vars

\* New has returned a network-mode logger: one connection, the monitor started
C20_Witness ==
    /\ logger = "ok" /\ ~optsWriter /\ VectorHost # ""
    /\ opened = 1 /\ conn = 1 /\ monPc = "loop" /\ wg = 1
    /\ \A t \in Calls : pc[t] = "idle"

\* C17: for every minimum level M and every call of severity S, the record
\* reaches send if and only if S >= M in the order DEBUG < INFO < WARN < ERROR
\* < FATAL; a call below M dials nothing and writes nothing.
C17_LevelFilter ==
    \A t \in Calls :
        call[t].sev # "na" =>
            /\ (call[t].op = "send") <=> (Rank(call[t].sev) >= Rank(Level))
            /\ call[t].op # "send" =>
                  /\ call[t].dials = 0 /\ call[t].writes = 0
                  /\ CountIn(t, sink) = 0 /\ Delivered(t) = 0

\* C18: with minimum level INFO, a Debug call returns at once without touching
\* the connection, the collector or the sink; an Info call whose connection
\* works (its dial, if any, and its write succeed) puts exactly one record on
\* the wire, with level INFO and the call's message.
C18_DebugStep(t) ==
    (/\ pc[t] = "idle" /\ pc'[t] # "idle"
     /\ Level = "INFO" /\ call'[t].sev = "DEBUG") =>
        /\ pc'[t] = "done"
        /\ call'[t].result = "filtered"
        /\ UNCHANGED <<conn, lastActivityTime, opened, closes, rcvd, sink, mu>>

C18_InfoResult(t) ==
    (/\ Level = "INFO" /\ call[t].sev = "INFO" /\ pc[t] = "done"
     /\ call[t].found \in {"live", "nil", "idle"}
     /\ ~call[t].envFail /\ ~call[t].sev1) =>
        /\ call[t].result = "sent"
        /\ call[t].writes = 1
        /\ call[t].level = "INFO"
        /\ Delivered(t) = 1

C18_DebugResult(t) ==
    (Level = "INFO" /\ call[t].sev = "DEBUG") =>
        /\ call[t].op = "emit" /\ call[t].dials = 0 /\ call[t].writes = 0
        /\ Delivered(t) = 0 /\ CountIn(t, sink) = 0

C18_InfoLevel ==
    /\ [](\A t \in Calls : C18_InfoResult(t) /\ C18_DebugResult(t))
    /\ [][\A t \in Calls : C18_DebugStep(t)]_vars

\* at level INFO a Debug call was dropped and an Info call arrived, alone, on
\* the connection of New
C18_Witness ==
    \E t, u \in Calls :
        /\ Level = "INFO"
        /\ pc[t] = "done" /\ call[t].sev = "DEBUG" /\ call[t].result = "filtered"
        /\ pc[u] = "done" /\ call[u].sev = "INFO" /\ call[u].level = "INFO"
        /\ opened = 1 /\ conn = 1 /\ rcvd[1] = <<u>>

\* C19: a call of FATAL severity is never dropped by the level test; the
\* process ends only in a step of a FATAL call whose send has returned (with
\* the record delivered or not), and no call of another severity ends it.
C19_ExitStep ==
    (~exited /\ exited') =>
        \E t \in Calls :
            /\ call[t].sev = "FATAL"
            /\ call[t].op = "send"
            /\ pc[t] = "done"
            /\ mu # t
            /\ call[t].result \in {"sent", "resent", "dropped_dial", "dropped_redial",
                                   "dropped_retry", "sink_ok", "sink_fail", "skipped"}
            /\ pc'[t] = "exit"

C19_FatalState ==
    /\ \A t \in Calls : call[t].sev = "FATAL" => call[t].op = "send"
    /\ \A t \in Calls : pc[t] = "exit" => call[t].sev = "FATAL"
    /\ exited <=> \E t \in Calls : pc[t] = "exit"

C19_FatalExits == [](C19_FatalState) /\ [][C19_ExitStep]_vars

\* a Fatal call at minimum level below FATAL could not deliver its record
\* (the write and the redial failed) and then ended the process
C19_Witness ==
    \E t \in Calls :
        /\ exited /\ pc[t] = "exit" /\ call[t].result = "dropped_redial"
        /\ Level = "ERROR" /\ Delivered(t) = 0

\* C21: New given more than one Options value returns an error and no logger;
\* it has dialed nothing and started no monitor.
C21_TooManyOptions ==
    tooManyOptions =>
        /\ logger = "err"
        /\ opened = 0 /\ conn = 0
        /\ monPc = "none" /\ wg = 0
        /\ stopChan = "nil"

\* New was given two Options values and failed
C21_Witness == tooManyOptions /\ logger = "err" /\ opened = 0

\* C22: a logger has at most one monitor in its lifetime: the monitor is
\* started by New and by nothing else, it terminates only after Close has
\* closed the stop channel, and once terminated it never runs again; a
\* connection dialed by a send after Close has returned is therefore cleared
\* only by a send or by a Close, never by a monitor.
C22_MonitorState ==
    /\ wg \in {0, 1}
    /\ (wg = 1) <=> (monPc \in {"loop", "select", "lock", "body"})
    /\ closesDone > 0 => monPc \in {"none", "done"}
    /\ monPc = "done" => chanClosed

C22_MonitorStep ==
    /\ (monPc = "none" /\ monPc' # "none") => (logger = "none" /\ monPc' = "loop")
    /\ monPc = "done" => monPc' = "done"
    /\ (monPc # "done" /\ monPc' = "done") => chanClosed
    /\ (monPc # "none") => monPc' # "none"
    /\ (closesDone > 0 /\ conn # 0 /\ conn' # conn) => mu \in Calls

C22_OneMonitor == [](C22_MonitorState) /\ [][C22_MonitorStep]_vars

\* the monitor has terminated, Close has returned, and a later send holds a
\* second connection that no monitor watches
C22_Witness ==
    \E t \in Calls :
        /\ monPc = "done" /\ closesDone > 0 /\ wg = 0
        /\ pc[t] = "done" /\ call[t].late /\ call[t].fresh = 2 /\ conn = 2

\* C23: Close takes the mutex only after it has signalled the monitor and the
\* monitor has terminated: a Close that is about to signal, or that waits for
\* the monitor, does not hold the mutex.
C23_CloseLocksAfterJoin ==
    \A t \in Calls : pc[t] \in {"cSignal", "cWait"} => mu # t

\* the positions at which a call reads or writes l.conn and l.lastActivityTime
InCriticalSection(t) ==
    pc[t] \in {"sConnect", "sWrite", "sRedial", "sRetry", "cSignal", "cWait", "cFinish"}

\* C24: once New has returned, a send, a monitor tick or a Close is at a
\* position where it reads or writes the handle or lastActivityTime only
\* while it holds the mutex, at most one of them is at such a position, and
\* every step that changes the handle or lastActivityTime is a step of the
\* task holding the mutex.
C24_State ==
    /\ \A t \in Calls : InCriticalSection(t) => mu = t
    /\ monPc = "body" => mu = "mon"
    /\ Cardinality({t \in Calls : InCriticalSection(t)})
          + (IF monPc = "body" THEN 1 ELSE 0) <= 1

C24_Step ==
    (logger = "ok" /\ <<conn, lastActivityTime>>' # <<conn, lastActivityTime>>) =>
        \/ mu = "mon" /\ monPc = "body" /\ monPc' # "body"
        \/ mu \in Calls /\ InCriticalSection(mu) /\ pc'[mu] # pc[mu]

C24_MutexGuardsHandle == [](C24_State) /\ [][C24_Step]_vars

\* a send writes while holding the mutex; another send and the monitor wait for it
C24_Witness ==
    \E t, u \in Calls :
        /\ t # u
        /\ pc[t] = "sWrite" /\ mu = t
        /\ pc[u] = "sLock"
        /\ monPc = "lock"

\* C25: sends never both reconnect the same logical connection: as long as
\* the clock stands still, no write or dial fails, no connection is severed
\* and neither the monitor nor Close clears the handle, at most one dial
\* succeeds in total; after it the handle is live and fresh, and a send that
\* was made while the handle was absent or idle and takes the lock after that
\* dial reuses the connection without dialing or closing anything.
C25_State ==
    /\ burst <= 1
    /\ burst = 1 => (conn # 0 /\ conn = opened /\ closes[conn] = 0
                     /\ conn \notin severed /\ lastActivityTime = now)

C25_Step(t) ==
    (/\ pc[t] = "sConnect" /\ pc'[t] # "sConnect"
     /\ NetworkMode /\ call[t].racing) =>
        IF burst = 1
        THEN /\ call'[t].found = "live"
             /\ call'[t].dials = 0
             /\ call'[t].old = conn
             /\ UNCHANGED <<conn, opened, closes>>
             /\ pc'[t] = "sWrite"
        ELSE /\ (conn # 0 /\ now - lastActivityTime <= TimeoutDuration) => call'[t].dials = 0
             /\ (conn = 0 \/ now - lastActivityTime > TimeoutDuration) => call'[t].dials = 1
             /\ opened' > opened => burst' = 1

C25_OneSendReconnects == [](C25_State) /\ [][\A t \in Calls : C25_Step(t)]_vars

\* three sends were made while the handle was absent or idle; one of them has
\* dialed and delivered its record, another has reused that connection, and
\* the third now holds the lock in front of the live connection
C25_Witness ==
    \E t, u, v \in Calls :
        /\ pc[t] = "done" /\ call[t].found = "nil" /\ call[t].dials = 1 /\ call[t].fresh = conn
        /\ pc[u] = "done" /\ call[u].found = "live" /\ call[u].dials = 0
        /\ conn # 0
        /\ rcvd[conn] = <<t, u>>
        /\ pc[v] = "sConnect" /\ call[v].racing
        /\ burst = 1

\* C26: lastActivityTime is set to the current time by every step in which a
\* dial succeeds (in New or in send) or a record is written to a connection
\* (first write or retry), and no other step changes it; it never lies in the
\* future.
C26_Step ==
    IF opened' > opened \/ rcvd' # rcvd
    THEN lastActivityTime' = now /\ conn' # 0
    ELSE lastActivityTime' = lastActivityTime

C26_ActivityRefresh == [](lastActivityTime <= now) /\ [][C26_Step]_vars

\* after the clock advanced, a send whose first write failed has redialed and
\* resent its record: the handle is live and lastActivityTime is the current time
C26_Witness ==
    \E t \in Calls :
        /\ pc[t] = "done" /\ call[t].result = "resent"
        /\ conn = call[t].fresh /\ now >= 1 /\ lastActivityTime = now

\* C27: a send dials at most twice: at most once to obtain a connection
\* before its first write (only when it found the handle absent or idle), and
\* at most once more after that write failed; a send to the sink or without a
\* destination dials nothing.
C27_AtMostTwoDials ==
    \A t \in Calls :
        call[t].op = "send" =>
            /\ call[t].dials <= 2
            /\ call[t].dials <= FirstDials(t) + (IF pc[t] \in {"sRetry", "done"} THEN 1 ELSE 0)
            /\ call[t].dials > FirstDials(t) => call[t].writes >= 1
            /\ call[t].found \in {"sink", "nodest"} => call[t].dials = 0

\* a send replaced an idle connection, its write failed, and it dialed a second time
C27_Witness ==
    \E t \in Calls :
        /\ pc[t] = "done" /\ call[t].found = "idle" /\ call[t].dials = 2
        /\ call[t].result = "resent" /\ opened = 3

\* C28: a handle that is set refers to a connection the logger has not
\* closed, no connection is closed twice, and every step in which send, the
\* monitor or Close closes a connection closes the one the handle refers to
\* and takes the handle off it, all within the closer's hold of the mutex.
C28_State ==
    /\ conn # 0 => (conn \in 1..opened /\ closes[conn] = 0)
    /\ \A c \in ConnIds : closes[c] <= 1

C28_Step ==
    \A c \in ConnIds :
        closes'[c] # closes[c] =>
            /\ closes'[c] = closes[c] + 1
            /\ conn = c
            /\ conn' # c
            /\ mu # "free"
            /\ \A d \in ConnIds \ {c} : closes'[d] = closes[d]

C28_HandleNeverClosed == [](C28_State) /\ [][C28_Step]_vars

\* two connections have been closed, once each, and a third one is the handle
C28_Witness == opened = 3 /\ conn = 3 /\ closes[1] = 1 /\ closes[2] = 1 /\ closes[3] = 0

\* C29: in the step in which a network send returns, the handle is live if
\* and only if the send wrote its record on a connection (at the first
\* attempt or at the retry), and then the handle is that connection; a send
\* that drops its record returns with the handle absent.
C29_Step(t) ==
    (/\ pc[t] \in {"sConnect", "sWrite", "sRedial", "sRetry"} /\ pc'[t] = "done"
     /\ call'[t].found \in {"nil", "idle", "live"}) =>
        /\ (conn' # 0) <=> (call'[t].result \in {"sent", "resent"})
        /\ (conn' # 0) <=> (DeliveredIn(t, rcvd', opened') = 1)
        /\ conn' # 0 => (CountIn(t, rcvd'[conn']) = 1 /\ closes'[conn'] = 0)
        /\ call'[t].result \in {"dropped_dial", "dropped_redial", "dropped_retry"} =>
              (conn' = 0 /\ DeliveredIn(t, rcvd', opened') = 0)

C29_LiveIffWritten == [][\A t \in Calls : C29_Step(t)]_vars

\* one send delivered its record and left the handle live; a later send
\* dropped its record after a failed retry and left the handle absent
C29_Witness ==
    \E t, u \in Calls :
        /\ pc[t] = "done" /\ call[t].result = "sent"
        /\ pc[u] = "done" /\ call[u].result = "dropped_retry"
        /\ conn = 0 /\ call[u].fresh # 0
        /\ closes[call[u].fresh] = 1 /\ Delivered(u) = 0

\* C30: an absent handle never suppresses the dial. Whatever left the handle
\* absent, a network send that holds the lock and finds it absent can dial,
\* and a dial the collector accepts sets the handle; when the collector
\* accepts the dial and the write, the send delivers its record once and
\* returns with the handle live on the connection it dialed.
C30_CanDial ==
    \A t \in Calls :
        (/\ pc[t] = "sConnect" /\ mu = t /\ NetworkMode /\ conn = 0
         /\ opened < MaxConns) =>
            ENABLED (SendConnect(t) /\ conn' = opened + 1 /\ pc'[t] = "sWrite")

C30_Step(t) ==
    /\ (pc[t] = "sConnect" /\ pc'[t] # "sConnect" /\ NetworkMode /\ conn = 0) =>
          /\ call'[t].dials = 1
          /\ opened' = opened => call'[t].envFail
    /\ (/\ pc[t] = "sWrite" /\ pc'[t] = "done" /\ call'[t].found = "nil"
        /\ ~call'[t].envFail /\ ~call'[t].sev1) =>
          /\ call'[t].result = "sent"
          /\ conn' = call'[t].fresh /\ conn' # 0 /\ closes'[conn'] = 0
          /\ DeliveredIn(t, rcvd', opened') = 1

C30_NeverTrapped ==
    /\ [](C30_CanDial)
    /\ [][\A t \in Calls : C30_Step(t)]_vars

\* a send lost its record and left the handle absent when its write and its
\* redial failed; the next send to find the handle absent dialed and
\* delivered its record, and the handle is live
C30_Witness ==
    \E t, u \in Calls :
        /\ pc[u] = "done" /\ call[u].result = "dropped_redial"
        /\ pc[t] = "done" /\ call[t].found = "nil" /\ call[t].result = "sent"
        /\ conn # 0 /\ conn = call[t].fresh /\ closes[conn] = 0
        /\ CountIn(t, rcvd[conn]) = 1

\* C31: no step of a monitor tick (taking the tick, locking, the body and the
\* unlock) dials, writes a record or changes lastActivityTime; when the handle
\* is absent or has not been idle for more than the timeout, the tick also
\* leaves the handle and every connection's open or closed state unchanged.
C31_TickStep ==
    (monPc \in {"select", "lock", "body"} /\ monPc' \in {"lock", "body", "loop"}
     /\ monPc' # monPc) =>
        /\ opened' = opened
        /\ rcvd' = rcvd
        /\ sink' = sink
        /\ lastActivityTime' = lastActivityTime
        /\ \A t \in Calls : call'[t] = call[t] /\ pc'[t] = pc[t]
        /\ (conn = 0 \/ ~(now - lastActivityTime > TimeoutDuration)) =>
              /\ conn' = conn
              /\ closes' = closes
              /\ evicted' = evicted

C31_TickFrame == [][C31_TickStep]_vars

\* after a tick has evicted the idle connection of New, without a dial and
\* with lastActivityTime as New left it, a second tick holds the lock over
\* the absent handle
C31_Witness ==
    /\ monPc = "body" /\ mu = "mon"
    /\ evicted /\ conn = 0
    /\ opened = 1 /\ closes[1] = 1 /\ rcvd[1] = <<>>
    /\ lastActivityTime = 0 /\ now = MaxTime

\* C32: every element a connection has received is the whole record of one
\* send. A step that puts bytes on the wire is the write of the send that
\* holds the lock: it appends that send's whole record after everything the
\* connection of the handle has received, all of which comes from sends that
\* had returned before, and changes no other connection; so the records of a
\* connection are in the order in which their sends held the lock.
C32_Whole ==
    \A c \in ConnIds : \A i \in DOMAIN rcvd[c] : rcvd[c][i] \in Calls

C32_WriteStep ==
    rcvd' # rcvd =>
        \E t \in Calls :
            /\ mu = t
            /\ pc[t] \in {"sWrite", "sRetry"}
            /\ \A u \in Calls \ {t} : ~InCriticalSection(u)
            /\ monPc # "body"
            /\ conn # 0
            /\ rcvd' = [rcvd EXCEPT ![conn] = Append(rcvd[conn], t)]
            /\ \A i \in DOMAIN rcvd[conn] :
                  /\ rcvd[conn][i] # t
                  /\ pc[rcvd[conn][i]] = "done"

C32_WholeInLockOrder == [](C32_Whole) /\ [][C32_WriteStep]_vars

\* three sends that ran concurrently wrote one after another on the
\* connection of New, which holds their three records, each once
C32_Witness ==
    /\ conn = 1 /\ opened = 1 /\ Len(rcvd[1]) = 3
    /\ \A t \in Calls :
          /\ pc[t] = "done" /\ call[t].result = "sent" /\ call[t].found = "live"
          /\ CountIn(t, rcvd[1]) = 1

\* C33: the idle test of send and the idle test of the monitor agree on every
\* pair of instants, and both are strict. A handle idle for exactly the
\* timeout is kept by a tick body (not closed, not cleared) and kept by a
\* send (found live, no dial, no close); and whenever a send keeps the handle
\* a tick body taken in the same state would keep it too.
C33_SamePredicate ==
    /\ \A t, last \in 0..MaxTime :
          /\ SendIdle(t, last) <=> MonitorIdle(t, last)
          /\ t - last = TimeoutDuration => ~SendIdle(t, last) /\ ~MonitorIdle(t, last)
    /\ SendIdle(now, lastActivityTime) <=> MonitorIdle(now, lastActivityTime)

C33_TickAtLimit ==
    (/\ monPc = "body" /\ monPc' # "body"
     /\ conn # 0 /\ now - lastActivityTime = TimeoutDuration) =>
        /\ conn' = conn
        /\ closes' = closes
        /\ lastActivityTime' = lastActivityTime

C33_SendStep(t) ==
    /\ (/\ pc[t] = "sConnect" /\ pc'[t] # "sConnect" /\ NetworkMode
        /\ conn # 0 /\ now - lastActivityTime = TimeoutDuration) =>
          /\ call'[t].found = "live"
          /\ call'[t].dials = 0
          /\ conn' = conn
          /\ opened' = opened
          /\ closes' = closes
          /\ pc'[t] = "sWrite"
    /\ (pc[t] = "sConnect" /\ call'[t].found = "live") =>
          /\ conn # 0
          /\ ~MonitorIdle(now, lastActivityTime)

C33_StrictIdleTest ==
    /\ [](C33_SamePredicate)
    /\ [][C33_TickAtLimit /\ \A t \in Calls : C33_SendStep(t)]_vars

\* the connection of New has been idle for exactly the timeout, neither
\* evicted nor replaced so far; a send holds the lock in front of its idle
\* test and a tick taken at the same instant waits for the lock
C33_Witness ==
    \E t \in Calls :
        /\ pc[t] = "sConnect" /\ mu = t /\ NetworkMode
        /\ conn = 1 /\ opened = 1 /\ closes[1] = 0
        /\ lastActivityTime = 0 /\ now = TimeoutDuration
        /\ ~evicted
        /\ monPc = "lock"

====
